---- MODULE Spec2Model ----
(***************************************************************************)
(* A model of fetch_versions.py: the paginated listing of an               *)
(* organization's repositories (fetch_repos), the paginated listing of a   *)
(* repository's tags (fetch_tags), the selection of the latest vINTEGER    *)
(* tag (get_latest_version_tag) and the driving routine (main) that        *)
(* writes versions.txt.                                                    *)
(*                                                                         *)
(* A Python str is a sequence of one-character strings, so that strip(),   *)
(* lower(), startswith(), the regular expression and the comparison of     *)
(* strings are computed character by character, as the interpreter does.   *)
(***************************************************************************)
EXTENDS Integers, Sequences, FiniteSets, TLC

VARIABLES
    pc,             \* position of the running routine
    tags,           \* get_latest_version_tag: its argument
    latest_tag,     \* get_latest_version_tag: its return value
    fn,             \* pagination: the function called, "fetch_repos" or "fetch_tags"
    upstream,       \* pagination: the responses the API gives to page 1, 2, ...
    fetched,        \* pagination: what the call made of them
    repo_pages,     \* main: the API's responses to /orgs/{org}/repos, by page
    tag_pages,      \* main: the API's responses to /repos/{org}/{repo}/tags, by repo name
    repos,          \* main: the local list repos, after the prefix filter
    idx,            \* main: position of the for loop in repos
    versions,       \* main: the local list versions
    versions_file,  \* the lines of versions.txt on disk
    opened,         \* whether main has opened versions.txt for writing
    tag_calls,      \* the repo names fetch_tags was called with, in call order
    error           \* the exception that ended main, or "none"

vars == <<pc, tags, latest_tag, fn, upstream, fetched, repo_pages, tag_pages,
          repos, idx, versions, versions_file, opened, tag_calls, error>>

selectorVars == <<tags, latest_tag>>
paginationVars == <<fn, upstream, fetched>>
mainVars == <<repo_pages, tag_pages, repos, idx, versions, versions_file,
              opened, tag_calls, error>>

---------------------------------------------------------------------------
(* Characters and strings                                                  *)

\* The characters modelled, by class, each class in code point order.
Digits == <<"0", "1", "2", "3", "4", "5", "6", "7", "8", "9">>
Uppercase ==
    <<"A", "B", "C", "D", "E", "F", "G", "H", "I", "J", "K", "L", "M",
      "N", "O", "P", "Q", "R", "S", "T", "U", "V", "W", "X", "Y", "Z">>
Lowercase ==
    <<"a", "b", "c", "d", "e", "f", "g", "h", "i", "j", "k", "l", "m",
      "n", "o", "p", "q", "r", "s", "t", "u", "v", "w", "x", "y", "z">>

IndexOf(c, table) == CHOOSE i \in 1..Len(table) : table[i] = c
InTable(c, table) == \E i \in 1..Len(table) : table[i] = c

\* The code point of a character: ASCII, for the characters modelled.
Ord(c) ==
    IF InTable(c, Digits) THEN 47 + IndexOf(c, Digits)
    ELSE IF InTable(c, Uppercase) THEN 64 + IndexOf(c, Uppercase)
    ELSE IF InTable(c, Lowercase) THEN 96 + IndexOf(c, Lowercase)
    ELSE CASE c = "\t" -> 9
           [] c = "\n" -> 10
           [] c = " " -> 32
           [] c = "-" -> 45
           [] c = "." -> 46
           [] c = "/" -> 47
           [] c = "@" -> 64

\* str.lower() on one character: A..Z become a..z.
LowerChar(c) ==
    IF InTable(c, Uppercase) THEN Lowercase[IndexOf(c, Uppercase)] ELSE c

\* str.lower()
lower(s) == [i \in 1..Len(s) |-> LowerChar(s[i])]

\* The characters str.strip() removes (str.isspace) among those modelled.
IsSpace(c) == c \in {" ", "\t", "\n"}

RECURSIVE lstrip(_)
lstrip(s) ==
    IF s # <<>> /\ IsSpace(Head(s)) THEN lstrip(Tail(s)) ELSE s

RECURSIVE rstrip(_)
rstrip(s) ==
    IF s # <<>> /\ IsSpace(s[Len(s)]) THEN rstrip(SubSeq(s, 1, Len(s) - 1)) ELSE s

\* str.strip(): leading and trailing whitespace removed.
strip(s) == rstrip(lstrip(s))

\* str.startswith(prefix)
startswith(s, prefix) ==
    /\ Len(s) >= Len(prefix)
    /\ SubSeq(s, 1, Len(prefix)) = prefix

\* a < b on Python strings: lexicographic by code point, a proper prefix first.
RECURSIVE StrLess(_, _)
StrLess(a, b) ==
    IF b = <<>> THEN FALSE
    ELSE IF a = <<>> THEN TRUE
    ELSE IF Head(a) = Head(b) THEN StrLess(Tail(a), Tail(b))
    ELSE Ord(Head(a)) < Ord(Head(b))

\* \d of the regular expression, on the ASCII characters modelled.
IsDigit(c) == InTable(c, Digits)

\* int() of a string of decimal digits (Python integers do not overflow).
RECURSIVE int(_)
int(digits) ==
    IF digits = <<>> THEN 0
    ELSE 10 * int(SubSeq(digits, 1, Len(digits) - 1))
         + (Ord(digits[Len(digits)]) - 48)

\* str(n) of a natural number: its decimal digits.
RECURSIVE str(_)
str(n) ==
    IF n < 10 THEN <<Digits[n + 1]>>
    ELSE str(n \div 10) \o <<Digits[(n % 10) + 1]>>

\* The value None, distinct from every str (whose elements are single characters).
None == <<"None">>

---------------------------------------------------------------------------
(* get_latest_version_tag                                                  *)

\* version_pattern.match(s) for r"^v(\d+)$": the captured digits, or None.
\* In Python "$" also matches just before a newline that ends the string.
version_pattern_match(s) ==
    LET core == IF s # <<>> /\ s[Len(s)] = "\n" THEN SubSeq(s, 1, Len(s) - 1) ELSE s
    IN  IF /\ Len(core) >= 2
           /\ core[1] = "v"
           /\ \A i \in 2..Len(core) : IsDigit(core[i])
        THEN SubSeq(core, 2, Len(core))
        ELSE None

\* The for loop: the (number, stripped tag) pairs of the tags that match, in order
\* (the concatenation with <<>> has TLC build the list once).
version_tags_of(ts) ==
    LET matching == SelectSeq(ts, LAMBDA tag : version_pattern_match(strip(tag)) # None)
    IN  [i \in 1..Len(matching) |->
            <<int(version_pattern_match(strip(matching[i]))), strip(matching[i])>>] \o <<>>

\* A plausible slip: the sort without reverse=True (ascending, stable).
sort_by_version_ascending(version_tags) ==
    LET n == Len(version_tags)
        place == [i \in 1..n |->
                     1 + Cardinality({j \in 1..n :
                            \/ version_tags[j][1] < version_tags[i][1]
                            \/ version_tags[j][1] = version_tags[i][1] /\ j < i})]
    IN  [p \in 1..n |-> version_tags[CHOOSE i \in 1..n : place[i] = p]]

\* version_tags.sort(reverse=True, key=lambda x: x[0]): list.sort is stable, and
\* with reverse=True still keeps elements of equal key in their original order. So
\* an element comes after those of greater key and the earlier ones of equal key.
sort_by_version_reverse(version_tags) ==
    LET n == Len(version_tags)
        place == [i \in 1..n |->
                     1 + Cardinality({j \in 1..n :
                            \/ version_tags[j][1] > version_tags[i][1]
                            \/ version_tags[j][1] = version_tags[i][1] /\ j < i})]
    IN  [p \in 1..n |-> version_tags[CHOOSE i \in 1..n : place[i] = p]]

get_latest_version_tag(ts) ==
    LET version_tags == version_tags_of(ts)
    IN  IF version_tags = <<>> THEN None
        ELSE sort_by_version_reverse(version_tags)[1][2]

---------------------------------------------------------------------------
(* The API's responses, fetch_repos and fetch_tags                         *)

per_page == 100

\* An element of a response body, as the code reads it: a JSON object with a
\* "name" key, a JSON object without one, or a str (so is each key that iterating
\* over a JSON object, instead of a list, yields).
NamedItem(n) == [type |-> "dict", has_name |-> TRUE, name |-> n]
NamelessItem == [type |-> "dict", has_name |-> FALSE, name |-> <<>>]
StrItem == [type |-> "str", has_name |-> FALSE, name |-> <<>>]

\* What one request can give: curl exits non-zero ("exit"), stdout is not JSON
\* ("garbage"), the body is a JSON list ("list"), the body is an API error object
\* with the keys "message" and "documentation_url" ("message"), or the body is a
\* JSON value that Python takes for false and is no list: null, {}, "", 0 ("falsy").
ListBody(items) == [kind |-> "list", items |-> items]
MessageBody == [kind |-> "message", items |-> <<StrItem, StrItem>>]
FalsyBody == [kind |-> "falsy", items |-> <<>>]
ExitFailure == [kind |-> "exit", items |-> <<>>]
GarbageBody == [kind |-> "garbage", items |-> <<>>]

\* The response to the request for `page`: the API answers a page past the end of
\* the data with an empty list.
Respond(pages, page) == IF page <= Len(pages) THEN pages[page] ELSE ListBody(<<>>)

Returned(value, requests) ==
    [status |-> "returned", error |-> "none", value |-> value, requests |-> requests]
Raised(exception, requests) ==
    [status |-> "raised", error |-> exception, value |-> <<>>, requests |-> requests]

\* `not page_repos`, `not page_tags`: an empty list, or another false value.
IsFalse(body) == body.kind = "falsy" \/ (body.kind = "list" /\ body.items = <<>>)

\* len(page_repos) < per_page
repos_page_is_short(page_repos) == Len(page_repos) < per_page

\* The while loop of fetch_repos, entered with the locals page and repos; requests
\* is the list of the pages requested so far.
RECURSIVE fetch_repos_loop(_, _, _, _)
fetch_repos_loop(pages, page, repos_so_far, requests) ==
    LET result == Respond(pages, page)
        asked == Append(requests, page)
    IN  IF result.kind = "exit" THEN Raised("CalledProcessError", asked)
        ELSE IF result.kind = "garbage" THEN Raised("JSONDecodeError", asked)
        ELSE IF IsFalse(result) THEN Returned(repos_so_far, asked)
        ELSE IF repos_page_is_short(result.items)
             THEN Returned(repos_so_far \o result.items, asked)
        ELSE fetch_repos_loop(pages, page + 1, repos_so_far \o result.items, asked)

fetch_repos(pages) == fetch_repos_loop(pages, 1, <<>>, <<>>)

\* A plausible slip: the last-page test written with <= instead of <.
tags_page_is_short_or_full(page_tags) == Len(page_tags) <= per_page

\* len(page_tags) < per_page
tags_page_is_short(page_tags) == Len(page_tags) < per_page

\* A plausible slip: an API error object raised instead of ending the loop.
raise_on_api_error(tags_so_far, requests) == Raised("RuntimeError", requests)

\* The branch of fetch_tags for an API error object: the message is printed and
\* the loop is left, so the tags gathered so far are returned.
break_on_api_error(tags_so_far, requests) == Returned(tags_so_far, requests)

\* tag["name"] for tag in page_tags: the names, or the exception of the first
\* element that has none.
NamesOf(items) == [i \in 1..Len(items) |-> items[i].name]
NameError(items) ==
    LET bad == {i \in 1..Len(items) : ~items[i].has_name}
    IN  IF bad = {} THEN "none"
        ELSE LET first == CHOOSE i \in bad : \A j \in bad : i <= j
             IN  IF items[first].type = "str" THEN "TypeError" ELSE "KeyError"

\* The while loop of fetch_tags, entered with the locals page and tags.
RECURSIVE fetch_tags_loop(_, _, _, _)
fetch_tags_loop(pages, page, tags_so_far, requests) ==
    LET result == Respond(pages, page)
        asked == Append(requests, page)
    IN  IF result.kind = "exit" THEN Raised("CalledProcessError", asked)
        ELSE IF result.kind = "garbage" THEN Raised("JSONDecodeError", asked)
        ELSE IF result.kind = "message" THEN break_on_api_error(tags_so_far, asked)
        ELSE IF IsFalse(result) THEN Returned(tags_so_far, asked)
        ELSE IF NameError(result.items) # "none"
             THEN Raised(NameError(result.items), asked)
        ELSE IF tags_page_is_short(result.items)
             THEN Returned(tags_so_far \o NamesOf(result.items), asked)
        ELSE fetch_tags_loop(pages, page + 1, tags_so_far \o NamesOf(result.items), asked)

fetch_tags(pages) == fetch_tags_loop(pages, 1, <<>>, <<>>)

---------------------------------------------------------------------------
(* main                                                                    *)

ORG_NAME == <<"a", "c", "t", "i", "o", "n", "s">>
REPO_PREFIX == <<"s", "e", "t", "u", "p", "-">>

\* A plausible slip: the prefix filter left out.
keep_all_repos(rs) == rs

\* [r for r in repos if r["name"].startswith(REPO_PREFIX)]
filter_repos(rs) == SelectSeq(rs, LAMBDA r : startswith(r.name, REPO_PREFIX))

\* A plausible slip: the sort key without .lower().
sort_key_as_written(entry) == entry[1]

\* key=lambda x: x[0].lower()
sort_key(entry) == lower(entry[1])

\* versions.sort(key=lambda x: x[0].lower()): list.sort is stable, so an entry comes
\* after those of smaller key and the earlier ones of equal key.
sort_versions(vs) ==
    LET n == Len(vs)
        place == [i \in 1..n |->
                     1 + Cardinality({j \in 1..n :
                            \/ StrLess(sort_key(vs[j]), sort_key(vs[i]))
                            \/ sort_key(vs[j]) = sort_key(vs[i]) /\ j < i})]
    IN  [p \in 1..n |-> vs[CHOOSE i \in 1..n : place[i] = p]]

\* f"{ORG_NAME}/{repo_name}@{tag}\n"
format_line(repo_name, tag) == ORG_NAME \o <<"/">> \o repo_name \o <<"@">> \o tag \o <<"\n">>

\* What the with block writes: the lines of the entries, one after the other.
RECURSIVE write_versions(_)
write_versions(vs) ==
    IF vs = <<>> THEN <<>>
    ELSE format_line(Head(vs)[1], Head(vs)[2]) \o write_versions(Tail(vs))

\* The API's tag pages for a repository: those chosen for it, and for any other
\* repository one page with the tags v1 and v2.
TagPagesOf(repo_name) ==
    IF repo_name \in DOMAIN tag_pages THEN tag_pages[repo_name]
    ELSE <<ListBody(<<NamedItem(<<"v", "1">>), NamedItem(<<"v", "2">>)>>)>>

\* fetch_repos(ORG_NAME) and the prefix filter. An exception of fetch_repos, or of
\* r["name"] in the filter, ends the run.
MainFetchRepos ==
    /\ pc = "main"
    /\ LET result == fetch_repos(repo_pages)
       IN  \/ /\ result.status = "raised"
              /\ error' = result.error
              /\ pc' = "aborted"
              /\ UNCHANGED repos
           \/ /\ result.status = "returned"
              /\ NameError(result.value) # "none"
              /\ error' = NameError(result.value)
              /\ pc' = "aborted"
              /\ UNCHANGED repos
           \/ /\ result.status = "returned"
              /\ NameError(result.value) = "none"
              /\ repos' = filter_repos(result.value)
              /\ pc' = "loop"
              /\ UNCHANGED error
    /\ UNCHANGED <<tags, latest_tag, paginationVars, repo_pages, tag_pages, idx,
                   versions, versions_file, opened, tag_calls>>

\* One iteration of `for repo in repos`: fetch_tags, get_latest_version_tag and
\* the append to versions. An exception of fetch_tags ends the run.
MainFetchTags ==
    /\ pc = "loop"
    /\ idx <= Len(repos)
    /\ LET repo_name == repos[idx].name
           result == fetch_tags(TagPagesOf(repo_name))
           latest == get_latest_version_tag(result.value)
       IN  /\ tag_calls' = Append(tag_calls, repo_name)
           /\ \/ /\ result.status = "raised"
                 /\ error' = result.error
                 /\ pc' = "aborted"
                 /\ UNCHANGED <<tags, latest_tag, idx, versions>>
              \/ /\ result.status = "returned"
                 /\ tags' = result.value
                 /\ latest_tag' = latest
                 /\ versions' = IF latest # None /\ latest # <<>>
                                THEN Append(versions, <<repo_name, latest>>)
                                ELSE versions
                 /\ idx' = idx + 1
                 /\ UNCHANGED <<pc, error>>
    /\ UNCHANGED <<paginationVars, repo_pages, tag_pages, repos, versions_file, opened>>

\* After the loop: versions is sorted, versions.txt is opened with mode "w" and the
\* lines are written.
MainWrite ==
    /\ pc = "loop"
    /\ idx > Len(repos)
    /\ versions' = sort_versions(versions)
    /\ opened' = TRUE
    /\ versions_file' = write_versions(versions')
    /\ pc' = "done"
    /\ UNCHANGED <<tags, latest_tag, paginationVars, repo_pages, tag_pages, repos, idx,
                   tag_calls, error>>

Next == MainFetchRepos \/ MainFetchTags \/ MainWrite

---------------------------------------------------------------------------
(* Specification of get_latest_version_tag on bounded tag lists            *)

\* The longest tag list given to get_latest_version_tag.
MaxTags == 2

\* Tag names: those of the tests, and tags with leading zeros or whitespace.
TagPool ==
    { <<"v", "1">>, <<"v", "2">>, <<"v", "9">>, <<"v", "1", "0">>,
      <<"v", "0", "1">>, <<"v", "0", "1", "0">>,
      <<" ", "v", "1">>, <<"v", "1", " ">>, <<" ", "v", "1", "0">>, <<"v", "2", "\n">>,
      <<"V", "1">>, <<"v">>, <<"v", "1", "a">>, <<"v", "1", ".", "0">>,
      <<"v", "1", ".", "0", ".", "0">>, <<"v", "1", "-", "b", "e", "t", "a">>,
      <<"1", ".", "0">>, <<"r", "e", "l", "e", "a", "s", "e", "-", "1">>, <<>> }

RECURSIVE SeqsUpTo(_, _)
SeqsUpTo(S, n) ==
    IF n = 0 THEN {<<>>}
    ELSE LET shorter == SeqsUpTo(S, n - 1)
         IN  shorter \cup {Append(s, x) : s \in {t \in shorter : Len(t) = n - 1}, x \in S}

InitSelector ==
    /\ pc = "select"
    /\ tags \in SeqsUpTo(TagPool, MaxTags)
    /\ latest_tag = None
    /\ fn = "none"
    /\ upstream = <<>>
    /\ fetched = <<>>
    /\ repo_pages = <<>>
    /\ tag_pages = <<>>
    /\ repos = <<>>
    /\ idx = 1
    /\ versions = <<>>
    /\ versions_file = <<>>
    /\ opened = FALSE
    /\ tag_calls = <<>>
    /\ error = "none"

\* One call of get_latest_version_tag(tags).
Select ==
    /\ pc = "select"
    /\ latest_tag' = get_latest_version_tag(tags)
    /\ pc' = "selected"
    /\ UNCHANGED <<tags, paginationVars, mainVars>>

NextSelector == Select

SpecSelector == InitSelector /\ [][NextSelector]_vars

---------------------------------------------------------------------------
(* Properties of get_latest_version_tag                                    *)

\* A tag of the form the specification accepts: the whole string is a lowercase
\* "v" followed by one or more decimal digits.
IsVInteger(t) ==
    /\ Len(t) >= 2
    /\ t[1] = "v"
    /\ \A i \in 2..Len(t) : t[i] \in {"0", "1", "2", "3", "4", "5", "6", "7", "8", "9"}

\* The digits of such a tag, read as an integer.
TagValue(t) == int(Tail(t))

TagIndexes == 1..Len(tags)

\* C1: when the tag list holds at least one tag of the form "v" digits, the result
\* is a tag of that form taken from the list, and its digits read as an integer are
\* greater than or equal to those of every tag of that form in the list.
C1_LatestIsGreatestListedVersion ==
    (pc = "selected" /\ \E i \in TagIndexes : IsVInteger(tags[i]))
        => /\ latest_tag # None
           /\ \E i \in TagIndexes : tags[i] = latest_tag
           /\ IsVInteger(latest_tag)
           /\ \A j \in TagIndexes :
                  IsVInteger(tags[j]) => TagValue(latest_tag) >= TagValue(tags[j])

\* C2: when no tag of the list is, as a whole string, a lowercase "v" followed by
\* one or more decimal digits, get_latest_version_tag returns no result.
C2_NoResultWithoutExactVInteger ==
    (pc = "selected" /\ \A i \in TagIndexes : ~IsVInteger(tags[i]))
        => latest_tag = None

\* The tags get_latest_version_tag accepts, as it records them: (number, string).
Accepted == {version_tags_of(tags)[i] : i \in 1..Len(version_tags_of(tags))}

\* The tag list in every order.
Reorderings ==
    {[i \in TagIndexes |-> tags[f[i]]] : f \in Permutations(TagIndexes)}

\* C10 as stated: two accepted tags with the same integer value are the same
\* string, and the result does not depend on the order of the tags.
C10_ValueDeterminesTag ==
    pc = "selected"
        => /\ \A a \in Accepted, b \in Accepted : a[1] = b[1] => a[2] = b[2]
           /\ \A p \in Reorderings : get_latest_version_tag(p) = latest_tag

\* The integer value of a result, -1 standing for None.
ResultValue(r) == IF r = None THEN -1 ELSE TagValue(r)

\* Whether tags[i], stripped, is "v" followed by digits.
AcceptedAt(i) == IsVInteger(strip(tags[i]))

\* C10 amended: two accepted tags with the same digit sequence are the same string,
\* the integer value of the result does not depend on the order of the tags, and the
\* result is the first tag, in input order, among the accepted tags of greatest value
\* (tags of equal value, such as v1 and v01, are told apart by their position).
C10_ValueOfLatestIsOrderIndependent ==
    pc = "selected"
        => /\ \A a \in Accepted, b \in Accepted :
                  Tail(a[2]) = Tail(b[2]) => a[2] = b[2]
           /\ \A p \in Reorderings :
                  ResultValue(get_latest_version_tag(p)) = ResultValue(latest_tag)
           /\ \/ latest_tag = None /\ \A i \in TagIndexes : ~AcceptedAt(i)
              \/ \E i \in TagIndexes :
                    /\ AcceptedAt(i)
                    /\ latest_tag = strip(tags[i])
                    /\ \A j \in TagIndexes :
                          AcceptedAt(j) =>
                              \/ TagValue(strip(tags[j])) < TagValue(latest_tag)
                              \/ TagValue(strip(tags[j])) = TagValue(latest_tag) /\ i <= j

\* Two accepted tags of equal value and different strings were given, and the one
\* that comes first in the list was returned.
C10_Witness ==
    /\ pc = "selected"
    /\ \E i \in TagIndexes, j \in TagIndexes :
          /\ i < j
          /\ AcceptedAt(i) /\ AcceptedAt(j)
          /\ strip(tags[i]) # strip(tags[j])
          /\ TagValue(strip(tags[i])) = TagValue(strip(tags[j]))
          /\ latest_tag = strip(tags[i])

---------------------------------------------------------------------------
(* Specification of fetch_repos and fetch_tags on bounded page sequences   *)

\* The most responses the API is given to answer with before its empty pages.
MaxPages == 3

\* The item named "v" n, as in the tests' pages.
Numbered(n) == NamedItem(<<"v">> \o str(n))

\* A full page: per_page items, numbered from `first`.
FullPage(first) == ListBody([i \in 1..per_page |-> Numbered(first + i - 1)])

\* The responses a request is answered with.
ResponsePool ==
    { FullPage(0), FullPage(per_page),
      ListBody(<<>>), ListBody(<<Numbered(2 * per_page)>>),
      ListBody(<<Numbered(1), Numbered(2)>>), ListBody(<<NamelessItem>>),
      MessageBody, FalsyBody, ExitFailure, GarbageBody }

InitPagination ==
    /\ pc = "call"
    /\ upstream \in SeqsUpTo(ResponsePool, MaxPages)
    /\ fn = "none"
    /\ fetched = Returned(<<>>, <<>>)
    /\ tags = <<>>
    /\ latest_tag = None
    /\ repo_pages = <<>>
    /\ tag_pages = <<>>
    /\ repos = <<>>
    /\ idx = 1
    /\ versions = <<>>
    /\ versions_file = <<>>
    /\ opened = FALSE
    /\ tag_calls = <<>>
    /\ error = "none"

\* One call of fetch_repos against the upstream.
CallFetchRepos ==
    /\ pc = "call"
    /\ fn' = "fetch_repos"
    /\ fetched' = fetch_repos(upstream)
    /\ pc' = "fetched"
    /\ UNCHANGED <<upstream, selectorVars, mainVars>>

\* One call of fetch_tags against the upstream.
CallFetchTags ==
    /\ pc = "call"
    /\ fn' = "fetch_tags"
    /\ fetched' = fetch_tags(upstream)
    /\ pc' = "fetched"
    /\ UNCHANGED <<upstream, selectorVars, mainVars>>

NextPagination == CallFetchRepos \/ CallFetchTags

SpecPagination == InitPagination /\ [][NextPagination]_vars

---------------------------------------------------------------------------
(* Properties of fetch_repos and fetch_tags                                *)

\* A response that is a list of exactly per_page items, each with a name.
IsFullListPage(r) ==
    /\ r.kind = "list"
    /\ Len(r.items) = per_page
    /\ \A i \in 1..Len(r.items) : r.items[i].has_name

\* A response that is a list of fewer than per_page items, each with a name.
IsShortListPage(r) ==
    /\ r.kind = "list"
    /\ Len(r.items) < per_page
    /\ \A i \in 1..Len(r.items) : r.items[i].has_name

\* The upstream answers with k full pages and then a short (possibly empty) page.
FullThenShort(pages, k) ==
    /\ \A i \in 1..k : IsFullListPage(Respond(pages, i))
    /\ IsShortListPage(Respond(pages, k + 1))

\* The items of pages 1..n, in page order.
RECURSIVE ItemsThrough(_, _)
ItemsThrough(pages, n) ==
    IF n = 0 THEN <<>> ELSE ItemsThrough(pages, n - 1) \o Respond(pages, n).items

\* C4: against k full pages followed by a short or empty page, fetch_repos and
\* fetch_tags request the pages 1, 2, ..., k+1 in this order and no other, and
\* return the items (fetch_tags: their names) of these pages in page order.
C4_PagesRequestedInOrderAndConcatenated ==
    \A k \in 0..Len(upstream) :
        (pc = "fetched" /\ FullThenShort(upstream, k))
            => /\ fetched.status = "returned"
               /\ fetched.requests = [i \in 1..(k + 1) |-> i]
               /\ fn = "fetch_repos" => fetched.value = ItemsThrough(upstream, k + 1)
               /\ fn = "fetch_tags"
                      => fetched.value = NamesOf(ItemsThrough(upstream, k + 1))

\* fetch_tags was called against a full page followed by a page of one item, and
\* returned per_page + 1 names after two requests.
C4_Witness ==
    /\ pc = "fetched"
    /\ fn = "fetch_tags"
    /\ FullThenShort(upstream, 1)
    /\ Len(Respond(upstream, 2).items) = 1
    /\ Len(fetched.value) = per_page + 1
    /\ fetched.requests = <<1, 2>>

\* C3: when a tag page requested by fetch_tags is answered with an API error object,
\* on the first page or on a later page reached after full pages, fetch_tags returns
\* the empty sequence and does not raise.
C3_ApiErrorYieldsNoTags ==
    \A k \in 0..Len(upstream) :
        (/\ pc = "fetched"
         /\ fn = "fetch_tags"
         /\ \A i \in 1..k : IsFullListPage(Respond(upstream, i))
         /\ Respond(upstream, k + 1).kind = "message")
            => /\ fetched.status = "returned"
               /\ fetched.value = <<>>

---------------------------------------------------------------------------
(* Specification of main against bounded upstreams                         *)

\* The most repositories on the last page of the repository list.
MaxRepos == 3

SetupNode == <<"s", "e", "t", "u", "p", "-", "n", "o", "d", "e">>
SetupPython == <<"s", "e", "t", "u", "p", "-", "P", "y", "t", "h", "o", "n">>
Checkout == <<"c", "h", "e", "c", "k", "o", "u", "t">>

\* The repositories a page of the repository list is made of.
RepoItems == {NamedItem(SetupNode), NamedItem(SetupPython), NamedItem(Checkout)}

\* A full page of the repository list: setup-node, then repo-1, ..., repo-99.
FullRepoPage ==
    ListBody([i \in 1..per_page |->
                 IF i = 1 THEN NamedItem(SetupNode)
                 ELSE NamedItem(<<"r", "e", "p", "o", "-">> \o str(i - 1))])

\* The responses that end the repository list.
LastRepoResponses ==
    {ListBody(items) : items \in SeqsUpTo(RepoItems, MaxRepos)}
        \cup {ListBody(<<NamelessItem>>), ListBody(<<NamedItem(SetupNode), NamelessItem>>)}
        \cup {MessageBody, FalsyBody, ExitFailure, GarbageBody}

\* A full page of tags, as a repository with many releases has it: v3, v2, and the
\* release tags v2.0.1, v2.0.2, ...
FullTagPage ==
    ListBody([i \in 1..per_page |->
                 IF i <= 2 THEN Numbered(4 - i)
                 ELSE NamedItem(<<"v", "2", ".", "0", ".">> \o str(i - 2))])

\* The API's answers for the tags of one repository.
TagPageSequences ==
    { <<ListBody(<<Numbered(1), Numbered(2), Numbered(10)>>)>>,
      <<ListBody(<<NamedItem(<<"v", "1", ".", "0", ".", "0">>)>>)>>,
      <<MessageBody>>,
      <<FullTagPage, MessageBody>>,
      <<FullTagPage, ListBody(<<Numbered(1), Numbered(9)>>)>>,
      <<ExitFailure>> }

\* versions.txt as an earlier run left it.
PreviousContent == format_line(<<"s", "e", "t", "u", "p", "-", "g", "o">>, <<"v", "1">>)

Init ==
    /\ pc = "main"
    /\ repo_pages \in {<<last>> : last \in LastRepoResponses}
                      \cup {<<FullRepoPage, last>> : last \in LastRepoResponses}
    /\ tag_pages \in [{SetupNode, SetupPython} -> TagPageSequences]
    /\ repos = <<>>
    /\ idx = 1
    /\ versions = <<>>
    /\ versions_file = PreviousContent
    /\ opened = FALSE
    /\ tag_calls = <<>>
    /\ error = "none"
    /\ tags = <<>>
    /\ latest_tag = None
    /\ fn = "none"
    /\ upstream = <<>>
    /\ fetched = <<>>

Spec == Init /\ [][Next]_vars

---------------------------------------------------------------------------
(* Properties of main                                                      *)

\* The lines of a file's content: the characters before each newline.
FileLines(content) ==
    LET ends == {i \in 1..Len(content) : content[i] = "\n"}
        endOf(n) == CHOOSE e \in ends : Cardinality({x \in ends : x <= e}) = n
        startOf(n) == IF n = 1 THEN 1 ELSE endOf(n - 1) + 1
    IN  [n \in 1..Cardinality(ends) |-> SubSeq(content, startOf(n), endOf(n) - 1)]

\* A line <organization>/<repository-name>@<tag> read back: the text before the
\* first "/", between it and the last "@", and after the last "@".
ParseLine(line) ==
    LET slashes == {i \in 1..Len(line) : line[i] = "/"}
        ats == {i \in 1..Len(line) : line[i] = "@"}
        slash == CHOOSE i \in slashes : \A j \in slashes : i <= j
        at == CHOOSE i \in ats : \A j \in ats : j <= i
    IN  IF slashes = {} \/ ats = {} THEN <<None, None, None>>
        ELSE <<SubSeq(line, 1, slash - 1), SubSeq(line, slash + 1, at - 1),
               SubSeq(line, at + 1, Len(line))>>

\* The manifest on disk, each line read back as (organization, repository, tag).
Manifest ==
    LET lines == FileLines(versions_file)
    IN  [i \in 1..Len(lines) |-> ParseLine(lines[i])] \o <<>>

\* A requested page of the repository list is not a list of repository records, or
\* its request fails: full lists of records come first, then a response that is none.
ListingFails ==
    \E k \in 0..Len(repo_pages) :
        /\ \A i \in 1..k : IsFullListPage(Respond(repo_pages, i))
        /\ ~IsFullListPage(Respond(repo_pages, k + 1))
        /\ ~IsShortListPage(Respond(repo_pages, k + 1))

\* C6: if listing the repositories fails, on any page, main aborts without fetching
\* tags and without opening or writing versions.txt, which keeps its content.
C6_ListingFailureAbortsBeforeAnyWrite ==
    ListingFails
        => /\ pc # "done"
           /\ pc = "aborted" => error # "none"
           /\ tag_calls = <<>>
           /\ ~opened
           /\ versions_file = PreviousContent

\* C7: the manifest written by main holds at most one entry per repository name,
\* whatever pages the repository list is made of.
C7_OneEntryPerRepository ==
    pc = "done"
        => \A i \in 1..Len(Manifest), j \in 1..Len(Manifest) :
               Manifest[i][2] = Manifest[j][2] => i = j

\* C8: the lines of the manifest are in non-decreasing order of the lower-cased
\* repository name.
C8_ManifestSortedCaseInsensitively ==
    pc = "done"
        => \A i \in 1..Len(Manifest), j \in 1..Len(Manifest) :
               i < j => ~StrLess(lower(Manifest[j][2]), lower(Manifest[i][2]))

\* The tags were fetched for setup-Python and then for setup-node, and the manifest
\* holds the line of setup-node before that of setup-Python.
C8_Witness ==
    /\ pc = "done"
    /\ Len(tag_calls) >= 2
    /\ tag_calls[1] = SetupPython
    /\ tag_calls[2] = SetupNode
    /\ Len(Manifest) = 2
    /\ Manifest[1][2] = SetupNode
    /\ Manifest[2][2] = SetupPython

\* The names of the repositories the API lists, in order.
ListedNames == NamesOf(fetch_repos(repo_pages).value)

\* The tag the Version Selector returns for a repository's tags.
SelectedTag(repo_name) ==
    get_latest_version_tag(fetch_tags(TagPagesOf(repo_name)).value)

\* C9: fetch_tags is called only for repositories whose name starts with the
\* prefix, after the filter, and the manifest has the line
\* <organization>/<repository-name>@<tag> exactly for the listed repositories with
\* the prefix for which the Version Selector returned a tag.
C9_OnlyPrefixedReposFetchedAndListed ==
    /\ \A i \in 1..Len(tag_calls) : startswith(tag_calls[i], REPO_PREFIX)
    /\ tag_calls # <<>> => \A i \in 1..Len(repos) : startswith(repos[i].name, REPO_PREFIX)
    /\ pc = "done"
           => {Manifest[i] : i \in 1..Len(Manifest)}
                  = {<<ORG_NAME, ListedNames[i], SelectedTag(ListedNames[i])>> :
                        i \in {j \in 1..Len(ListedNames) :
                                  /\ startswith(ListedNames[j], REPO_PREFIX)
                                  /\ SelectedTag(ListedNames[j]) # None}}

\* The run ended with a repository without the prefix listed, a repository with
\* the prefix and no qualifying tag, and a line for a repository with the prefix.
C9_Witness ==
    /\ pc = "done"
    /\ \E i \in 1..Len(ListedNames) : ~startswith(ListedNames[i], REPO_PREFIX)
    /\ \E i \in 1..Len(tag_calls) : SelectedTag(tag_calls[i]) = None
    /\ Len(Manifest) >= 1

\* The API answers the tag requests of a repository only with lists of named tags
\* and API error objects.
OnlyListsAndApiErrors(pages) ==
    \A i \in 1..Len(pages) :
        \/ pages[i].kind = "message"
        \/ pages[i].kind = "list"
              /\ \A j \in 1..Len(pages[i].items) : pages[i].items[j].has_name

\* A tag page requested for the repository is answered with an API error object.
HitByApiError(repo_name) ==
    \E k \in 0..Len(TagPagesOf(repo_name)) :
        /\ \A i \in 1..k : IsFullListPage(Respond(TagPagesOf(repo_name), i))
        /\ Respond(TagPagesOf(repo_name), k + 1).kind = "message"

\* C5: an API error object returned while the tags of a repository are fetched does
\* not end the run (a run that ends in the loop ended on a failed request), every
\* repository with the prefix has its tags fetched, and the manifest has the line of
\* every repository not hit by the error that has a qualifying tag.
C5_ApiErrorDoesNotHaltTheRun ==
    /\ (pc = "aborted" /\ tag_calls # <<>>)
           => ~OnlyListsAndApiErrors(TagPagesOf(tag_calls[Len(tag_calls)]))
    /\ pc = "done"
           => /\ tag_calls = SelectSeq(ListedNames, LAMBDA n : startswith(n, REPO_PREFIX))
              /\ \A i \in 1..Len(tag_calls) :
                     (~HitByApiError(tag_calls[i]) /\ SelectedTag(tag_calls[i]) # None)
                         => \E l \in 1..Len(Manifest) :
                                Manifest[l] = <<ORG_NAME, tag_calls[i],
                                                SelectedTag(tag_calls[i])>>

\* The first tag fetch was answered with an API error object, the tags of another
\* repository were fetched after it, and its line is in the manifest.
C5_Witness ==
    /\ pc = "done"
    /\ Len(tag_calls) >= 2
    /\ TagPagesOf(tag_calls[1])[1].kind = "message"
    /\ tag_calls[2] # tag_calls[1]
    /\ \E l \in 1..Len(Manifest) : Manifest[l][2] = tag_calls[2]

====
